---- MODULE Spec2Model ----
(***************************************************************************)
(* Model of the two command-line services of SATURN_automatisation:        *)
(*   src/services/sending_retail.py  retail write-off (batcher+submitter)  *)
(*   src/services/reciving_inv.py    delivery notifier                     *)
(*                                                                         *)
(* Conventions.  An optional value (None, NaN, NaT) is the empty sequence  *)
(* <<>>, a present value v is <<v>>.  A raw JSON scalar is a record        *)
(* [kind, n, s]: null, a number n, or a string s (a sequence of chars).    *)
(* A document number f"{date}-{counter:03d}" is modelled by its counter:   *)
(* the date prefix is the same for every number of one run and the         *)
(* zero-padded decimal is injective on the counter.                        *)
(***************************************************************************)
EXTENDS Integers, Sequences, FiniteSets, TLC

(* ------------------------------ bounds -------------------------------- *)
MaxRows == 3
MaxBatch == 2
MaxItems == 2
MaxLimit == 2
MaxWire == 3
MaxFrame == 3
MaxRecords == 2
MaxWalk == 2

(* ------------------------- program constants -------------------------- *)
FallbackWarehouse == 1085300
HttpOk == 200

(* --------------------------- raw JSON values -------------------------- *)
Null == [kind |-> "null", n |-> 0, s |-> <<>>]
Num(n) == [kind |-> "num", n |-> n, s |-> <<>>]
Str(s) == [kind |-> "str", n |-> 0, s |-> s]

NaN == <<>>
Some(v) == <<v>>
IsNa(o) == o = <<>>

Digits == <<"0", "1", "2", "3", "4", "5", "6", "7", "8", "9">>

IsDigit(c) == \E d \in 1..10 : Digits[d] = c

DigitVal(c) == (CHOOSE d \in 1..10 : Digits[d] = c) - 1

RECURSIVE DecimalValue(_)
DecimalValue(s) ==
    IF s = <<>> THEN 0
    ELSE 10 * DecimalValue(SubSeq(s, 1, Len(s) - 1)) + DigitVal(s[Len(s)])

AllDigits(s) == s # <<>> /\ \A i \in 1..Len(s) : IsDigit(s[i])

RECURSIVE Strip(_)
Strip(s) ==
    IF s = <<>> THEN s
    ELSE IF s[1] = " " THEN Strip(Tail(s))
    ELSE IF s[Len(s)] = " " THEN Strip(SubSeq(s, 1, Len(s) - 1))
    ELSE s

\* Python int(x): a number is kept, a string is stripped and read as an
\* optionally signed decimal; anything else raises (modelled as NaN).
py_int(v) ==
    IF v.kind = "num" THEN Some(v.n)
    ELSE IF v.kind = "str" THEN
        LET t == Strip(v.s)
            neg == t # <<>> /\ t[1] = "-"
            body == IF t # <<>> /\ t[1] \in {"-", "+"} THEN Tail(t) ELSE t
        IN IF AllDigits(body)
           THEN Some(IF neg THEN 0 - DecimalValue(body) ELSE DecimalValue(body))
           ELSE NaN
    ELSE NaN

\* pd.to_numeric(errors='coerce'): numbers are kept, numeric strings are
\* read, everything else becomes NaN.
to_numeric(v) ==
    IF v.kind = "num" THEN Some(v.n)
    ELSE IF v.kind = "str" /\ AllDigits(v.s) THEN Some(DecimalValue(v.s))
    ELSE NaN

\* pd.to_datetime(utc=True, errors='coerce'): an instant is kept (as its
\* epoch number), whatever does not parse becomes NaT.
to_datetime(v) == IF v.kind = "num" THEN Some(v.n) ELSE NaN

(* ------------------------------ stock rows ---------------------------- *)
BatchIds == 1..MaxBatch

Row(c, b, p, v, n) ==
    [countPu |-> c, batchId |-> b, patId |-> p, warehouseId |-> 1,
     contractorId |-> 9, validFrom |-> v, note |-> n]

\* The stock rows the batcher is exercised on.  For every batch id a row of
\* quantity 1 at each of two instants; and for batch 1 a row of quantity 2,
\* a row under a second product id, a row whose timestamp does not parse, and
\* one row for each way of being dropped: a quantity that is no number, a
\* quantity of 0, a marked note, a missing product id.
StockRows ==
    {Row(Num(1), b, Some(1), Num(v), "plain") : b \in BatchIds, v \in {1, 2}}
    \cup {Row(Num(2), 1, Some(1), Num(1), "plain"),
          Row(Num(1), 1, Some(2), Num(1), "plain"),
          Row(Num(1), 1, Some(1), Str(<<"x">>), "plain"),
          Row(Str(<<"x">>), 1, Some(1), Num(1), "plain"),
          Row(Num(0), 1, Some(1), Num(1), "plain"),
          Row(Num(1), 1, Some(1), Num(1), "marked"),
          Row(Num(1), 1, NaN, Num(1), "plain")}

\* The rows a stock listing of the running service is drawn from.
WireRows ==
    {Row(Num(1), b, Some(1), Num(1), "plain") : b \in 1..MaxWire}
    \cup {Row(Num(0), 1, Some(1), Num(1), "plain")}

\* The invoice records an on-the-way listing is drawn from.
Record(i, w) == [id |-> i, destinationWarehouseId |-> w]

WireRecords ==
    {Record(i, w) : i \in {Null, Num(5)},
                    w \in {Null, Num(0), Num(7), Str(<<"0">>), Str(<<"7">>), Str(<<"x">>)}}

\* The id the remote side gives the draft of a document: a fresh one for
\* every draft.
RemoteId(doc) == 40 + doc

Frames(S, n) == UNION {[1..k -> S] : k \in 0..n}

(* ------------------------------ state --------------------------------- *)
VARIABLES
    program,            \* which entry point runs: "batch", "retail", "notify"
    pc,                 \* position in the running code
    URL, AUTHORIZATION, \* whether the configuration provides them
    execute, items_per_invoice, max_invoices,   \* args / parameters
    df,                 \* the stock rows (retail) or invoice records (notify)
    batch_groups, gi, remaining_quantity, current_items, invoices, _counter,
    results, idx, invoice_id,
    trace,              \* requests and sleeps, in the order they happen
    saved_invoices, saved_results,
    success_count, error_count, skipped_count

vars == <<program, pc, URL, AUTHORIZATION, execute, items_per_invoice,
          max_invoices, df, batch_groups, gi, remaining_quantity,
          current_items, invoices, _counter, results, idx, invoice_id, trace,
          saved_invoices, saved_results, success_count, error_count,
          skipped_count>>

argVars == <<program, URL, AUTHORIZATION, execute, items_per_invoice, max_invoices>>
walkVars == <<batch_groups, gi, remaining_quantity, current_items, invoices, _counter>>
loopVars == <<results, idx, invoice_id>>
saveVars == <<saved_invoices, saved_results>>
countVars == <<success_count, error_count, skipped_count>>

(* ------------------- prepare_invoices: the data pipeline -------------- *)
Positive(o) == ~IsNa(o) /\ o[1] > 0

\* Lines 135-144: countPu coerced to a number, rows with countPu > 0 kept
\* (NaN > 0 is false), rows whose note carries the write-off marker dropped.
\* Line 153: validFrom parsed.
Convert(r) ==
    [r EXCEPT !.countPu = to_numeric(r.countPu)[1], !.validFrom = to_datetime(r.validFrom)]

KeepRow(r) == Positive(to_numeric(r.countPu)) /\ r.note # "marked"

df_filtered(rows) ==
    LET kept == SelectSeq(rows, KeepRow)
    IN [i \in 1..Len(kept) |-> Convert(kept[i])]

\* sort_values(['validFrom', 'batchId']): ascending, NaT (na_position='last')
\* after every instant, ties left in their order (stable).
StampBefore(a, b) ==
    IF IsNa(a) THEN FALSE ELSE IF IsNa(b) THEN TRUE ELSE a[1] < b[1]

SortBefore(a, b) ==
    \/ StampBefore(a.validFrom, b.validFrom)
    \/ a.validFrom = b.validFrom /\ a.batchId < b.batchId

RECURSIVE InsertSorted(_, _)
InsertSorted(s, r) ==
    IF s = <<>> THEN <<r>>
    ELSE IF SortBefore(r, s[Len(s)])
         THEN Append(InsertSorted(SubSeq(s, 1, Len(s) - 1), r), s[Len(s)])
         ELSE Append(s, r)

RECURSIVE df_sorted(_)
df_sorted(rows) ==
    IF rows = <<>> THEN <<>>
    ELSE InsertSorted(df_sorted(SubSeq(rows, 1, Len(rows) - 1)), rows[Len(rows)])

\* groupby(['batchId', 'patId', 'warehouseId', 'contractorId']) with the
\* defaults sort=True, dropna=True: one group per distinct key among the rows
\* whose key has no missing part, the groups in ascending order of the key.
GroupKey(r) == <<r.batchId, r.patId[1], r.warehouseId, r.contractorId>>

HasKey(r) == ~IsNa(r.patId)

RECURSIVE TupleLess(_, _)
TupleLess(a, b) ==
    IF a = <<>> THEN FALSE
    ELSE IF a[1] # b[1] THEN a[1] < b[1]
    ELSE TupleLess(Tail(a), Tail(b))

RECURSIVE SortedKeys(_)
SortedKeys(S) ==
    IF S = {} THEN <<>>
    ELSE LET m == CHOOSE k \in S : \A o \in S \ {k} : TupleLess(k, o)
         IN <<m>> \o SortedKeys(S \ {m})

\* 'countPu': 'sum' (line 164).
SumCount_first(rows) == rows[1].countPu

RECURSIVE SumCount(_)
SumCount(rows) ==
    IF rows = <<>> THEN 0 ELSE rows[1].countPu + SumCount(Tail(rows))

\* 'min' skips NaT; a group whose stamps are all NaT has NaT.
MinStamp(rows) ==
    LET ts == {rows[i].validFrom[1] : i \in {j \in 1..Len(rows) : ~IsNa(rows[j].validFrom)}}
    IN IF ts = {} THEN NaN ELSE Some(CHOOSE t \in ts : \A u \in ts : t <= u)

Aggregate(key, rows) ==
    LET mine == SelectSeq(rows, LAMBDA r : HasKey(r) /\ GroupKey(r) = key)
    IN [batchId |-> key[1], patId |-> key[2], warehouseId |-> key[3],
        contractorId |-> key[4], countPu |-> SumCount(mine),
        validFrom |-> MinStamp(mine)]

group_by(sorted) ==
    LET keys == SortedKeys({GroupKey(sorted[i]) : i \in {j \in 1..Len(sorted) : HasKey(sorted[j])}})
    IN [g \in 1..Len(keys) |-> Aggregate(keys[g], sorted)]

\* create_invoice_payload: the document number is drawn from InvoiceCounter,
\* the header ids come from the row in hand, the lines are the items.
create_invoice_payload(items, row, counter) ==
    [docNum |-> counter,
     receiverContractorId |-> row.contractorId,
     sourceWarehouseId |-> row.warehouseId,
     tbrDtoList |-> items]

\* A line: float(remaining_quantity) keeps the value of the quantity.
Line(row, qty) == [batchId |-> row.batchId, countPuSent |-> qty]

Min(a, b) == IF a <= b THEN a ELSE b
Max(a, b) == IF a >= b THEN a ELSE b

\* Python s[:n]
Slice(s, n) ==
    IF n >= 0 THEN SubSeq(s, 1, Min(n, Len(s)))
    ELSE SubSeq(s, 1, Max(Len(s) + n, 0))

\* Python truth value of Optional[int]: None and 0 are false.
Truthy(o) == ~IsNa(o) /\ o[1] # 0

(* ------------------- prepare_invoices: the walk ----------------------- *)
\* Line 189.
available_space(cap, items) == cap - Len(items)

\* Line 199.
reached_cap_early(items, cap) == Len(items) >= cap - 1

reached_cap(items, cap) == Len(items) >= cap

Walk(items, invs, counter, remaining) ==
    [current_items |-> items, invoices |-> invs, counter |-> counter,
     remaining_quantity |-> remaining]

\* Lines 188-208: one pass of the while body for the group `row`.
while_body(w, row, cap) ==
    LET filled == Append(w.current_items, Line(row, w.remaining_quantity))
    IN IF available_space(cap, w.current_items) > 0
       THEN IF reached_cap(filled, cap)
            THEN Walk(<<>>, Append(w.invoices, create_invoice_payload(filled, row, w.counter)),
                      w.counter + 1, 0)
            ELSE Walk(filled, w.invoices, w.counter, 0)
       ELSE IF w.current_items # <<>>
            THEN Walk(<<>>, Append(w.invoices,
                          create_invoice_payload(w.current_items, row, w.counter)),
                      w.counter + 1, w.remaining_quantity)
            ELSE w

\* Lines 210-212: the last, under-filled spec takes the last group's header.
close_last(w, groups) ==
    IF w.current_items # <<>>
    THEN Walk(w.current_items,
              Append(w.invoices,
                     create_invoice_payload(w.current_items, groups[Len(groups)], w.counter)),
              w.counter + 1, w.remaining_quantity)
    ELSE w

\* Lines 214-216.
truncate(invs, max) == IF Truthy(max) THEN Slice(invs, max[1]) ELSE invs

(* ------------------- prepare_invoices: the actions -------------------- *)
\* Lines 125-181.
Prepare ==
    /\ pc = "prepare"
    /\ LET filtered == df_filtered(df)
       IN IF filtered = <<>>
          THEN /\ pc' = "prepared"
               /\ batch_groups' = <<>>
          ELSE /\ pc' = "for"
               /\ batch_groups' = group_by(df_sorted(filtered))
    /\ invoices' = <<>>
    /\ current_items' = <<>>
    /\ gi' = 0
    /\ remaining_quantity' = 0
    /\ UNCHANGED <<argVars, df, _counter, loopVars, trace, saveVars, countVars>>

\* Line 183-184: the next group is taken; lines 210-212 once there is none.
ForStep ==
    /\ pc = "for"
    /\ IF gi < Len(batch_groups)
       THEN /\ gi' = gi + 1
            /\ remaining_quantity' = batch_groups[gi + 1].countPu
            /\ pc' = "while"
            /\ UNCHANGED <<invoices, current_items, _counter>>
       ELSE LET w == close_last(Walk(current_items, invoices, _counter, remaining_quantity),
                                batch_groups)
            IN /\ invoices' = w.invoices
               /\ _counter' = w.counter
               /\ pc' = "truncate"
               /\ UNCHANGED <<gi, remaining_quantity, current_items>>
    /\ UNCHANGED <<argVars, df, batch_groups, loopVars, trace, saveVars, countVars>>

\* Line 187: the test of the while loop.
WhileTest ==
    /\ pc = "while"
    /\ pc' = IF remaining_quantity > 0 THEN "body" ELSE "for"
    /\ UNCHANGED <<argVars, df, walkVars, loopVars, trace, saveVars, countVars>>

\* Lines 188-208: one pass of the while body, back to the test.
WhileStep ==
    /\ pc = "body"
    /\ LET w == while_body(Walk(current_items, invoices, _counter, remaining_quantity),
                           batch_groups[gi], items_per_invoice)
       IN /\ current_items' = w.current_items
          /\ invoices' = w.invoices
          /\ _counter' = w.counter
          /\ remaining_quantity' = w.remaining_quantity
          /\ pc' = "while"
    /\ UNCHANGED <<argVars, df, batch_groups, gi, loopVars, trace, saveVars, countVars>>

\* Lines 214-219.
Truncate ==
    /\ pc = "truncate"
    /\ invoices' = truncate(invoices, max_invoices)
    /\ pc' = "prepared"
    /\ UNCHANGED <<argVars, df, batch_groups, gi, remaining_quantity,
                   current_items, _counter, loopVars, trace, saveVars, countVars>>

(* ------------- prepare_invoices as a function of its inputs ----------- *)
\* The while loop of one group (lines 187-208); it ends only when a pass
\* consumes the quantity, which needs a line cap of at least 1.
RECURSIVE while_loop(_, _, _)
while_loop(w, row, cap) ==
    IF w.remaining_quantity > 0 THEN while_loop(while_body(w, row, cap), row, cap) ELSE w

\* The for loop (lines 183-208) from group i on.
RECURSIVE for_loop(_, _, _, _)
for_loop(w, groups, i, cap) ==
    IF i > Len(groups) THEN w
    ELSE for_loop(while_loop([w EXCEPT !.remaining_quantity = groups[i].countPu],
                             groups[i], cap),
                  groups, i + 1, cap)

\* Lines 120-219, for a line cap of at least 1 and the counter just reset.
prepare_invoices(rows, cap, max) ==
    LET filtered == df_filtered(rows)
        groups == group_by(df_sorted(filtered))
    IN IF filtered = <<>> THEN <<>>
       ELSE truncate(close_last(for_loop(Walk(<<>>, <<>>, 1, 0), groups, 1, cap),
                                groups).invoices,
                     max)

(* --------------- the batcher on its own: prepare_invoices ------------- *)
ItemArgs == {0 - 1} \cup (0..MaxItems)
LimitArgs == {NaN} \cup {Some(n) : n \in {0 - 1} \cup (0..MaxLimit)}

\* prepare_invoices entered with one of the given frames and limits.
InitBatchOn(frames, limits) ==
    /\ program = "batch"
    /\ pc = "prepare"
    /\ URL = TRUE /\ AUTHORIZATION = TRUE
    /\ execute = FALSE
    /\ items_per_invoice \in ItemArgs
    /\ max_invoices \in limits
    /\ df \in frames
    /\ batch_groups = <<>> /\ gi = 0 /\ remaining_quantity = 0
    /\ current_items = <<>> /\ invoices = <<>> /\ _counter = 1
    /\ results = <<>> /\ idx = 0 /\ invoice_id = 0
    /\ trace = <<>>
    /\ saved_invoices = NaN /\ saved_results = NaN
    /\ success_count = 0 /\ error_count = 0 /\ skipped_count = 0

InitBatch == InitBatchOn(Frames(StockRows, MaxRows), LimitArgs)

NextBatch == Prepare \/ ForStep \/ WhileTest \/ WhileStep \/ Truncate

SpecBatch == InitBatch /\ [][NextBatch]_vars

\* The walk runs in the one thread of the interpreter, which keeps
\* executing: a statement of the walk that can be executed is executed.
FairBatch ==
    /\ WF_vars(ForStep) /\ WF_vars(WhileTest)
    /\ WF_vars(WhileStep) /\ WF_vars(Truncate)

\* The inputs the termination of the walk is examined on: up to MaxWalk of
\* the stock rows of quantity 1, 2 and 0, every line cap, and either no
\* invoice-count cap or a cap of 1.
WalkRows ==
    {Row(Num(1), b, Some(1), Num(1), "plain") : b \in BatchIds}
    \cup {Row(Num(2), 1, Some(1), Num(1), "plain"),
          Row(Num(0), 1, Some(1), Num(1), "plain")}

InitWalk == InitBatchOn(Frames(WalkRows, MaxWalk), {NaN, Some(1)})

SpecBatchFair == InitWalk /\ [][NextBatch]_vars /\ FairBatch

(* --------------------- sending_retail.py: main ------------------------ *)
\* An entry of the trace: a request (its operation, the document or record it
\* is made for, the oid and warehouse id it carries, the status answered, NaN
\* when the request raised instead) or a sleep.
Event(op, doc, oid, wh, status) ==
    [op |-> op, doc |-> doc, oid |-> oid, wh |-> wh, status |-> status]

Pause == Event("sleep", 0, NaN, NaN, NaN)

IsRequest(e) == e.op # "sleep"

\* What a request can come to: it raises before any answer (NaN), it is
\* answered with an error status, or it is answered 200.
Failed == {NaN, Some(500)}
Answered == Some(HttpOk)

\* Lines 396-401.
ConfigCheck ==
    /\ program = "retail"
    /\ pc = "main"
    /\ pc' = IF ~URL \/ ~AUTHORIZATION THEN "done" ELSE "fetch"
    /\ UNCHANGED <<argVars, df, walkVars, loopVars, trace, saveVars, countVars>>

\* Lines 403-427 with get_warehouse_stocks (lines 25-59): one request; a
\* failure, an answer without rows or a listing without rows ends the run.
FetchStocks ==
    /\ program = "retail"
    /\ pc = "fetch"
    /\ \/ /\ \E st \in Failed \cup {Answered} :
                trace' = Append(trace, Event("getTotals", 0, NaN, NaN, st))
          /\ pc' = "done"
          /\ df' = df
       \/ /\ trace' = Append(trace, Event("getTotals", 0, NaN, NaN, Answered))
          /\ \E rows \in Frames(WireRows, MaxFrame) :
                /\ df' = rows
                /\ pc' = IF rows = <<>> THEN "done" ELSE "service"
    /\ UNCHANGED <<argVars, walkVars, loopVars, saveVars, countVars>>

(* ------------- run_retail_write_off_service (lines 222-360) ----------- *)
\* Lines 234-242: InvoiceCounter.reset(), then prepare_invoices is entered.
StartService ==
    /\ pc = "service"
    /\ _counter' = 1
    /\ pc' = "prepare"
    /\ UNCHANGED <<argVars, df, batch_groups, gi, remaining_quantity,
                   current_items, invoices, loopVars, trace, saveVars, countVars>>

\* Line 258: if not execute.
dry_run_ignored(flag) == FALSE

dry_run(flag) == ~flag

\* Lines 244-264: nothing to do, or the dry run's return, or the loop starts.
AfterPrepare ==
    /\ program = "retail"
    /\ pc = "prepared"
    /\ results' = <<>>
    /\ IF invoices = <<>> \/ dry_run(execute)
       THEN /\ pc' = "save"
            /\ UNCHANGED idx
       ELSE /\ pc' = "create"
            /\ idx' = 1
    /\ UNCHANGED <<argVars, df, walkVars, invoice_id, trace, saveVars, countVars>>

Result(doc, status, id, stamped) ==
    [docNum |-> doc, status |-> status, invoice_id |-> id, timestamp |-> stamped]

\* Line 271: the loop moves to the next spec, or ends (lines 335-360 only
\* report).
next_spec_abort(i, n) == "save"

next_spec(i, n) == IF i < n THEN "create" ELSE "save"

\* Lines 271-295 and the handlers of lines 317-333: the create-draft request
\* of spec idx.
\*   - requests.post or raise_for_status raises a RequestException;
\*   - the answer is no JSON or no mapping: resp.json() or the test of line
\*     285 raises, a RequestException or another Exception by the version of
\*     requests in use;
\*   - the answer has no resData.id (lines 285-292);
\*   - the answer carries the remote id.
CreateDraft ==
    /\ pc = "create"
    /\ LET doc == invoices[idx].docNum
       IN \/ /\ \E st \in Failed :
                   trace' = Append(trace, Event("createNew", doc, NaN, NaN, st))
             /\ results' = Append(results, Result(doc, "network_error", NaN, TRUE))
             /\ idx' = idx + 1
             /\ pc' = next_spec(idx, Len(invoices))
             /\ UNCHANGED invoice_id
          \/ /\ trace' = Append(trace, Event("createNew", doc, NaN, NaN, Answered))
             /\ \E status \in {"network_error", "error"} :
                   results' = Append(results, Result(doc, status, NaN, TRUE))
             /\ idx' = idx + 1
             /\ pc' = next_spec(idx, Len(invoices))
             /\ UNCHANGED invoice_id
          \/ /\ trace' = Append(trace, Event("createNew", doc, NaN, NaN, Answered))
             /\ results' = Append(results, Result(doc, "error", NaN, FALSE))
             /\ idx' = idx + 1
             /\ pc' = next_spec(idx, Len(invoices))
             /\ UNCHANGED invoice_id
          \/ /\ trace' = Append(trace, Event("createNew", doc, NaN, NaN, Answered))
             /\ invoice_id' = RemoteId(doc)
             /\ pc' = "retail"
             /\ UNCHANGED <<results, idx>>
    /\ UNCHANGED <<argVars, df, walkVars, saveVars, countVars>>

\* Line 299: create_retail_payload(invoice_id), lines 109-117: the oid sent.
create_retail_payload(id) == Some(id)

\* Lines 313-315: the pause after a spec that went through.
pause_after(i, n) == IF i < n THEN <<Pause>> ELSE <<>>

\* Lines 297-315 and the handler of lines 317-325: the send-to-retail request.
SendRetail ==
    /\ pc = "retail"
    /\ LET doc == invoices[idx].docNum
           oid == create_retail_payload(invoice_id)
       IN \/ /\ \E st \in Failed :
                   trace' = Append(trace, Event("doSendToRetale", doc, oid, NaN, st))
             /\ results' = Append(results, Result(doc, "network_error", NaN, TRUE))
          \/ /\ trace' = Append(trace, Event("doSendToRetale", doc, oid, NaN, Answered))
                         \o pause_after(idx, Len(invoices))
             /\ results' = Append(results,
                    Result(doc, "created_and_sent", Some(invoice_id), TRUE))
    /\ idx' = idx + 1
    /\ pc' = next_spec(idx, Len(invoices))
    /\ UNCHANGED <<argVars, df, walkVars, invoice_id, saveVars, countVars>>

\* Lines 440-459: the result files; an empty list writes no file.
Save ==
    /\ pc = "save"
    /\ saved_invoices' = IF invoices # <<>> THEN Some(invoices) ELSE NaN
    /\ saved_results' = IF results # <<>> THEN Some(results) ELSE NaN
    /\ pc' = "done"
    /\ UNCHANGED <<argVars, df, walkVars, loopVars, trace, countVars>>

\* Lines 461-462: KeyboardInterrupt is no Exception, so the handlers of the
\* loop let it through; main prints a line and returns.
Interrupt ==
    /\ pc \in {"create", "retail"}
    /\ pc' = "interrupted"
    /\ UNCHANGED <<argVars, df, walkVars, loopVars, trace, saveVars, countVars>>

(* ------------------------- reciving_inv.py ---------------------------- *)
\* Lines 143-147: main builds the service and calls run; nothing is checked.
NotifyMain ==
    /\ program = "notify"
    /\ pc = "main"
    /\ pc' = "fetch"
    /\ UNCHANGED <<argVars, df, walkVars, loopVars, trace, saveVars, countVars>>

\* fetch_invoices (lines 62-83).  With no URL requests.post raises before
\* anything is sent; a header whose value is None is left out and the
\* request goes out.  A failure leaves run and is logged by main (148-149).
FetchInvoices ==
    /\ program = "notify"
    /\ pc = "fetch"
    /\ IF ~URL
       THEN /\ pc' = "done"
            /\ UNCHANGED <<df, idx, trace>>
       ELSE \/ /\ \E st \in Failed \cup {Answered} :
                     trace' = Append(trace, Event("getList", 0, NaN, NaN, st))
               /\ pc' = "done"
               /\ UNCHANGED <<df, idx>>
            \/ /\ trace' = Append(trace, Event("getList", 0, NaN, NaN, Answered))
               /\ \E recs \in Frames(WireRecords, MaxRecords) :
                     /\ df' = recs
                     /\ idx' = 1
                     /\ pc' = IF recs = <<>> THEN "done" ELSE "notify"
    /\ UNCHANGED <<argVars, walkVars, results, invoice_id, saveVars, countVars>>

\* Line 119: pd.isna(invoice_id) or pd.isna(dest_wh) or dest_wh in (0, '0')
needs_fallback_number_only(rec) ==
    \/ rec.id = Null
    \/ rec.destinationWarehouseId = Null
    \/ rec.destinationWarehouseId = Num(0)

needs_fallback(rec) ==
    \/ rec.id = Null
    \/ rec.destinationWarehouseId = Null
    \/ rec.destinationWarehouseId \in {Num(0), Str(<<"0">>)}

\* Lines 119-121.
dest_of(rec) ==
    IF needs_fallback(rec) THEN Num(FallbackWarehouse) ELSE rec.destinationWarehouseId

\* Lines 109-135, with notify_delivered (lines 86-104): int(dest_wh) is
\* evaluated while the payload is built, before the request; whatever is
\* raised is counted as an error.  The pause follows in every case.
NotifyStep ==
    /\ program = "notify"
    /\ pc = "notify"
    /\ LET rec == df[idx]
           wh == py_int(dest_of(rec))
       IN IF IsNa(wh)
          THEN /\ error_count' = error_count + 1
               /\ trace' = Append(trace, Pause)
               /\ UNCHANGED success_count
          ELSE \E st \in Failed \cup {Answered} :
                  /\ trace' = trace \o
                        <<Event("notifyDelivered", idx, Some(rec.id), wh, st), Pause>>
                  /\ IF st = Some(HttpOk)
                     THEN /\ success_count' = success_count + 1
                          /\ UNCHANGED error_count
                     ELSE /\ error_count' = error_count + 1
                          /\ UNCHANGED success_count
    /\ idx' = idx + 1
    /\ pc' = IF idx < Len(df) THEN "notify" ELSE "done"
    /\ UNCHANGED <<argVars, df, walkVars, results, invoice_id, saveVars, skipped_count>>

(* --------------------------- the programs ----------------------------- *)
Init ==
    /\ program \in {"retail", "notify"}
    /\ pc = "main"
    /\ URL \in BOOLEAN /\ AUTHORIZATION \in BOOLEAN
    /\ IF program = "retail"
       THEN /\ execute \in BOOLEAN
            /\ items_per_invoice \in ItemArgs
            /\ max_invoices \in LimitArgs
       ELSE /\ execute = FALSE
            /\ items_per_invoice = 0
            /\ max_invoices = NaN
    /\ df = <<>>
    /\ batch_groups = <<>> /\ gi = 0 /\ remaining_quantity = 0
    /\ current_items = <<>> /\ invoices = <<>> /\ _counter = 1
    /\ results = <<>> /\ idx = 0 /\ invoice_id = 0
    /\ trace = <<>>
    /\ saved_invoices = NaN /\ saved_results = NaN
    /\ success_count = 0 /\ error_count = 0 /\ skipped_count = 0

Next ==
    \/ ConfigCheck \/ FetchStocks \/ StartService
    \/ Prepare \/ ForStep \/ WhileTest \/ WhileStep \/ Truncate
    \/ AfterPrepare \/ CreateDraft \/ SendRetail \/ Save \/ Interrupt
    \/ NotifyMain \/ FetchInvoices \/ NotifyStep

Spec == Init /\ [][Next]_vars

(* ======================= prepare_invoices: claims ===================== *)
RECURSIVE AllLines(_)
AllLines(invs) ==
    IF invs = <<>> THEN <<>> ELSE invs[1].tbrDtoList \o AllLines(Tail(invs))

RECURSIVE SeqSum(_)
SeqSum(s) == IF s = <<>> THEN 0 ELSE s[1] + SeqSum(Tail(s))

\* The batch ids with a row that survives the filters, the quantity of the
\* surviving rows of a batch id, and the quantity its returned lines carry.
SurvivingBatches ==
    {df[i].batchId : i \in {j \in 1..Len(df) : KeepRow(df[j])}}

InputQty(b) ==
    LET mine == SelectSeq(df, LAMBDA r : KeepRow(r) /\ r.batchId = b)
    IN SeqSum([i \in 1..Len(mine) |-> to_numeric(mine[i].countPu)[1]])

LinesQty(b) ==
    LET mine == SelectSeq(AllLines(invoices), LAMBDA l : l.batchId = b)
    IN SeqSum([i \in 1..Len(mine) |-> mine[i].countPuSent])

FullyKeyed(b) == \A i \in 1..Len(df) : KeepRow(df[i]) /\ df[i].batchId = b => HasKey(df[i])

\* A group's FIFO key (validity timestamp, batch id), a missing timestamp
\* comparing as the minimum.
StampRank(o) == IF IsNa(o) THEN 0 - 1 ELSE o[1]

FifoKeyLeq(g, h) ==
    \/ StampRank(g.validFrom) < StampRank(h.validFrom)
    \/ StampRank(g.validFrom) = StampRank(h.validFrom) /\ g.batchId <= h.batchId

\* C1: the lines of the returned list, read in output order, belong to
\* groups whose (validity timestamp, batch id) keys are non-decreasing, a
\* missing timestamp being the minimum.  The k-th line of the output is the
\* line of the k-th group walked.
C1_FifoOrder ==
    pc = "prepared" =>
        \A k \in 1..(Len(AllLines(invoices)) - 1) :
            FifoKeyLeq(batch_groups[k], batch_groups[k + 1])

\* C2: every returned spec has between 1 and items_per_invoice lines, and
\* every returned spec but the last one the walk produced (the one holding the
\* last document number drawn) has exactly items_per_invoice lines.
C2_LineCount ==
    pc = "prepared" =>
        \A i \in 1..Len(invoices) :
            LET n == Len(invoices[i].tbrDtoList)
            IN /\ n >= 1
               /\ n <= items_per_invoice
               /\ invoices[i].docNum # _counter - 1 => n = items_per_invoice

C2_Witness ==
    /\ pc = "prepared"
    /\ items_per_invoice = 2
    /\ Len(invoices) = 2
    /\ Len(invoices[1].tbrDtoList) = 2
    /\ Len(invoices[2].tbrDtoList) = 1

C4_Truncation ==
    pc = "prepared" /\ ~IsNa(max_invoices) /\ items_per_invoice >= 1 =>
        (max_invoices[1] >= 0 =>
            LET full == prepare_invoices(df, items_per_invoice, NaN)
                n == max_invoices[1]
            IN /\ Len(invoices) <= n
               /\ invoices = SubSeq(full, 1, Min(n, Len(full))))

(* ========================= the services: claims ======================= *)
Ended == pc \in {"save", "done"}

OpsOf(op) == SelectSeq(trace, LAMBDA e : e.op = op)

\* C5: for the same rows and caps the dry run and the live run return the
\* list prepare_invoices yields for these rows and caps (numbers, headers
\* and lines, in order); the dry run makes no request of its own (the trace
\* holds only the stock listing main fetched) and returns no result.
C5_DryRun ==
    program = "retail" =>
        /\ Ended /\ (items_per_invoice >= 1 \/ invoices = <<>>) =>
              invoices = prepare_invoices(df, items_per_invoice, max_invoices)
        /\ ~execute =>
              /\ results = <<>>
              /\ \A k \in 1..Len(trace) : trace[k].op = "getTotals"

C5_Witness ==
    /\ program = "retail"
    /\ pc = "done"
    /\ ~execute
    /\ Len(invoices) = 2
    /\ saved_invoices = Some(invoices)
    /\ Len(trace) = 1

\* C6: in live mode every spec is taken once, in list order: there is one
\* create-draft request per spec taken and at most one send-to-retail
\* request, none repeated, and one result per spec, in order, under the
\* spec's document number; when the loop ends every spec has its result.
C6_OneResultPerSpec ==
    program = "retail" /\ execute /\ pc \in {"create", "retail", "save", "done"} =>
        LET creates == OpsOf("createNew")
            retails == OpsOf("doSendToRetale")
        IN /\ pc = "create" => Len(results) = idx - 1 /\ Len(creates) = idx - 1
           /\ pc = "retail" => Len(results) = idx - 1 /\ Len(creates) = idx
           /\ Ended => Len(results) = Len(invoices) /\ Len(creates) = Len(invoices)
           /\ \A i \in 1..Len(results) : results[i].docNum = invoices[i].docNum
           /\ \A i \in 1..Len(creates) : creates[i].doc = invoices[i].docNum
           /\ \A i \in 1..Len(retails) : \A j \in 1..Len(retails) :
                 i < j => retails[i].doc < retails[j].doc
           /\ \A i \in 1..Len(retails) :
                 \E j \in 1..Len(invoices) : retails[i].doc = invoices[j].docNum

C6_Witness ==
    /\ program = "retail"
    /\ pc = "done"
    /\ Len(results) = 3
    /\ results[1].status = "network_error"
    /\ results[2].status = "error"
    /\ results[3].status = "created_and_sent"
    /\ Len(OpsOf("createNew")) = 3

\* C7: when an interrupt ends the live loop after k >= 1 results, these
\* results and the generated specs are in the result files.
C7_InterruptPersists ==
    pc = "interrupted" /\ Len(results) >= 1 =>
        /\ saved_results = Some(results)
        /\ saved_invoices = Some(invoices)

\* The records InvoiceService.run is through with, and the requests made for
\* the i-th of them.
Processed ==
    IF program # "notify" THEN {}
    ELSE IF pc = "notify" THEN 1..(idx - 1)
    ELSE IF pc = "done" THEN 1..Len(df)
    ELSE {}

NotifiesOf(i) == SelectSeq(trace, LAMBDA e : e.op = "notifyDelivered" /\ e.doc = i)

MissingOrZero(w) == w \in {Null, Num(0), Str(<<"0">>)}

Unparseable(w) == w.kind = "str" /\ IsNa(py_int(w))

Counted ==
    /\ skipped_count = 0
    /\ success_count + error_count = Cardinality(Processed)
    /\ success_count =
          Len(SelectSeq(trace, LAMBDA e : e.op = "notifyDelivered" /\ e.status = Answered))

\* C8 as claimed: a record whose destination warehouse id is missing, zero
\* or unparseable gets its request, carrying the fallback id, is not skipped
\* and is counted by the status answered.
C8_FallbackAlways ==
    program = "notify" =>
        /\ Counted
        /\ \A i \in Processed :
              LET w == df[i].destinationWarehouseId
              IN MissingOrZero(w) \/ Unparseable(w) =>
                    /\ Len(NotifiesOf(i)) = 1
                    /\ NotifiesOf(i)[1].wh = Some(FallbackWarehouse)

\* C8 amended: a record whose destination warehouse id is missing or zero
\* gets its one request, carrying the fallback id; a record whose id is
\* present and whose destination is a string that is no integer gets no
\* request; no record is skipped, a record answered 200 counts as a success
\* and every other record as an error.
C8_Fallback ==
    program = "notify" =>
        /\ Counted
        /\ \A i \in Processed :
              LET w == df[i].destinationWarehouseId
              IN /\ MissingOrZero(w) =>
                       /\ Len(NotifiesOf(i)) = 1
                       /\ NotifiesOf(i)[1].wh = Some(FallbackWarehouse)
                 /\ Unparseable(w) /\ df[i].id # Null => Len(NotifiesOf(i)) = 0

C8_Witness ==
    /\ program = "notify"
    /\ pc = "done"
    /\ Len(df) = 2
    /\ df[1].destinationWarehouseId = Null
    /\ df[2] = Record(Num(5), Str(<<"x">>))
    /\ NotifiesOf(1)[1].wh = Some(FallbackWarehouse)
    /\ success_count = 1
    /\ error_count = 1

\* C9: in both services, when the configuration lacks the URL or the
\* authorization, no request is ever issued.
C9_NoRequestWithoutConfig ==
    ~URL \/ ~AUTHORIZATION => \A k \in 1..Len(trace) : ~IsRequest(trace[k])

LoopOps == {"createNew", "doSendToRetale"}

\* C10: in the live loop a create-draft request that follows a request of
\* the previous spec is separated from it by a sleep, whatever came of that
\* spec; a send-to-retail request follows its create-draft request at once;
\* and no sleep follows the last spec.
C10_DelayBetweenSpecs ==
    program = "retail" =>
        /\ \A k \in 1..(Len(trace) - 1) :
              /\ trace[k].op \in LoopOps /\ trace[k + 1].op \in LoopOps =>
                    trace[k].doc = trace[k + 1].doc
              /\ trace[k].op = "sleep" => trace[k + 1].op = "createNew"
        /\ Ended /\ trace # <<>> => trace[Len(trace)].op # "sleep"

\* The send-to-retail requests made for a document.  One is made only once
\* the create-draft request of the document was answered with an id, so the
\* documents with such a request are those whose draft exists remotely.
SendsFor(doc) == SelectSeq(trace, LAMBDA e : e.op = "doSendToRetale" /\ e.doc = doc)

\* A send-to-retail request comes straight after the answered create-draft
\* request of the same document and carries the id that answer gave.
SendFollowsCreate ==
    \A k \in 1..Len(trace) :
        trace[k].op = "doSendToRetale" =>
            /\ k > 1
            /\ trace[k - 1] = Event("createNew", trace[k].doc, NaN, NaN, Answered)
            /\ trace[k].oid = Some(RemoteId(trace[k].doc))

\* The result of a document whose draft was created carries the draft's id.
CreatedCarryId ==
    \A i \in 1..Len(results) :
        SendsFor(results[i].docNum) # <<>> =>
            results[i].invoice_id = Some(RemoteId(results[i].docNum))

\* C11: in live mode a send-to-retail request is issued only after the
\* create-draft request of the same spec succeeded and returned an id, and
\* references exactly that id; and the result of every spec whose draft was
\* created remotely carries that id, whether or not the send-to-retail
\* request succeeded.
C11_RemoteIdInResults ==
    program = "retail" => SendFollowsCreate /\ CreatedCarryId

(* =================== prepare_invoices: termination ==================== *)
\* With a line cap of at least 1 a pass of the while body takes the whole
\* remaining quantity or closes a full spec and the next pass takes it: the
\* walk ends.
WalkTerminatesCapped ==
    (pc \in {"for", "while", "body"} /\ items_per_invoice >= 1) ~> (pc = "prepared")

\* C12: for every set of stock rows with a row that survives the filters
\* and every integer line cap (0 and negative ones included) the walk of
\* prepare_invoices terminates: the while loop over a group's remaining
\* quantity reaches remaining_quantity = 0 and the function returns.
C12_WalkTerminates ==
    /\ (pc = "while") ~> (pc = "for" /\ remaining_quantity = 0)
    /\ (pc = "for") ~> (pc = "prepared")

====
